---------------------------- MODULE Spec2Model ----------------------------
(***************************************************************************)
(* Model of src/ensemble_api.py: the weighted ensemble of N recommendation *)
(* APIs (get_ensemble_recommendations and its two helpers).                *)
(*                                                                         *)
(* Representation choices                                                  *)
(*   - A pandas DataFrame is a sequence of rows; a row is a record whose   *)
(*     fields are the frame's columns.                                     *)
(*   - A float is an exact rational <<n, d>> in lowest terms with d > 0;   *)
(*     <<0, 0>> is NaN.  Rounding of IEEE doubles is not modelled.         *)
(*   - Model names and isbn values are naturals >= 1 whose numeric order   *)
(*     stands for the lexicographic order of the strings of the program;   *)
(*     0 is the missing value (None / NaN) of such a column.               *)
(*   - A descriptive cell (title, author, description) is a tag            *)
(*     <<model, i>>: the text that source `model` sent in its i-th record; *)
(*     <<0, 0>> is the missing value.                                      *)
(***************************************************************************)
EXTENDS Integers, Sequences, FiniteSets

\* ------------------------------------------------------------------ bounds
MaxRows == 3     \* records in the responses of one invocation, all sources together

\* the top_k_final a caller may ask for: fewer books than the sources may send
\* (Isbns has two), and as many
TopKValues == {1, 2}
\* the source names a caller may configure
ModelNames == {1, 2}
\* the isbn values a source may send
Isbns      == {1, 2}
\* raw similarity values a source may send (JSON numbers)
SimValues  == {0, 5, 10}

\* ------------------------------------------------------------ float values
NaN == <<0, 0>>

IsNaN(x) == x[2] = 0

Abs(n) == IF n < 0 THEN -n ELSE n

RECURSIVE GCD(_, _)
GCD(a, b) == IF b = 0 THEN a ELSE GCD(b, a % b)

\* the rational n/d (d # 0) in lowest terms with a positive denominator
Rat(n, d) ==
    LET g == GCD(Abs(n), Abs(d))
        s == IF d < 0 THEN -1 ELSE 1
    IN  <<(s * n) \div g, (s * d) \div g>>

Float(i) == <<i, 1>>

\* NaN propagates through arithmetic, as in IEEE 754
FAdd(x, y) == IF IsNaN(x) \/ IsNaN(y) THEN NaN
              ELSE Rat(x[1] * y[2] + y[1] * x[2], x[2] * y[2])

FSub(x, y) == IF IsNaN(x) \/ IsNaN(y) THEN NaN
              ELSE Rat(x[1] * y[2] - y[1] * x[2], x[2] * y[2])

FMul(x, y) == IF IsNaN(x) \/ IsNaN(y) THEN NaN
              ELSE Rat(x[1] * y[1], x[2] * y[2])

\* only used with y # 0
FDiv(x, y) == IF IsNaN(x) \/ IsNaN(y) THEN NaN
              ELSE Rat(x[1] * y[2], x[2] * y[1])

\* every comparison with NaN is false
FLess(x, y) == ~IsNaN(x) /\ ~IsNaN(y) /\ x[1] * y[2] < y[1] * x[2]

FLeq(x, y) == ~IsNaN(x) /\ ~IsNaN(y) /\ x[1] * y[2] <= y[1] * x[2]

\* weights a caller may configure
WeightValues == {Float(0), Rat(1, 2)}

\* --------------------------------------------------------- sequence helpers
Range(s) == {s[i] : i \in 1..Len(s)}

RECURSIVE Concat(_)
\* pd.concat(frames, ignore_index=True): the rows of the frames, in order
Concat(frames) ==
    IF frames = <<>> THEN <<>> ELSE Head(frames) \o Concat(Tail(frames))

RECURSIVE SortedSeq(_)
\* the elements of a finite set of naturals, ascending
SortedSeq(S) ==
    IF S = {} THEN <<>>
    ELSE LET m == CHOOSE x \in S : \A y \in S : x <= y
         IN  <<m>> \o SortedSeq(S \ {m})

\* sequences over S of length lo..hi
SeqsOf(S, lo, hi) == UNION {[1..n -> S] : n \in lo..hi}

\* sequences over S without repetition, of length lo..hi
DistinctSeqs(S, lo, hi) ==
    {s \in SeqsOf(S, lo, hi) : \A i, j \in 1..Len(s) : i # j => s[i] # s[j]}

\* ----------------------------------------------------------- data frames
\* the keys _call_reco_api looks for in a dict body, in the order it tries them
WrapperKeys == <<"results", "recommendations", "books", "items">>

ExpectedCols == {"title", "author", "description", "isbn", "similarity"}

DescCols == {"title", "author", "description"}

\* the missing value of a column: None / NaN
NA(c) == IF c = "isbn" THEN 0 ELSE <<0, 0>>

IsNA(c, v) == v = NA(c)

\* r with column c set to v (added when r has no such column)
WithCol(r, c, v) == [x \in (DOMAIN r) \cup {c} |-> IF x = c THEN v ELSE r[x]]

\* pd.DataFrame(records): the columns are the union of the records' keys and a
\* record without a key gets the missing value in that column
DataFrame(records) ==
    LET cols == UNION {DOMAIN records[i] : i \in 1..Len(records)}
    IN  [columns |-> cols,
         rows    |-> [i \in 1..Len(records) |->
                        [c \in cols |-> IF c \in DOMAIN records[i]
                                        THEN records[i][c] ELSE NA(c)]]]

\* ------------------------------------------------------------ _call_reco_api
\* ParseBody taking an object without a wrapper key for an unexpected format
ParseBodyStrict(data) ==
    IF data.shape = "list"
    THEN [raised |-> "none", frame |-> DataFrame(data.records)]
    ELSE IF data.shape = "dict" /\ \E i \in 1..Len(WrapperKeys) :
                                    WrapperKeys[i] \in DOMAIN data.lists
    THEN LET hits == {i \in 1..Len(WrapperKeys) : WrapperKeys[i] \in DOMAIN data.lists}
             first == CHOOSE i \in hits : \A j \in hits : i <= j
         IN  [raised |-> "none", frame |-> DataFrame(data.lists[WrapperKeys[first]])]
    ELSE [raised |-> "ValueError:format", frame |-> DataFrame(<<>>)]

\* lines 24-34: the frame read from a decoded JSON body, or the ValueError
ParseBody(data) ==
    IF data.shape = "list"
    THEN [raised |-> "none", frame |-> DataFrame(data.records)]
    ELSE IF data.shape = "dict"
    THEN LET hits == {i \in 1..Len(WrapperKeys) : WrapperKeys[i] \in DOMAIN data.lists}
         IN  IF hits # {}
             THEN LET first == CHOOSE i \in hits : \A j \in hits : i <= j
                  IN  [raised |-> "none",
                       frame  |-> DataFrame(data.lists[WrapperKeys[first]])]
             \* pd.json_normalize(data): one row holding the dict's own fields
             ELSE [raised |-> "none", frame |-> DataFrame(<<data.fields>>)]
    ELSE [raised |-> "ValueError:format", frame |-> DataFrame(<<>>)]

\* lines 36-46: the expected columns, or the ValueError naming the missing ones
SelectExpected(frame, model_name) ==
    IF ExpectedCols \ frame.columns # {}
    THEN [raised |-> "ValueError:columns", df |-> <<>>]
    ELSE [raised |-> "none",
          df |-> [i \in 1..Len(frame.rows) |->
                    [c \in ExpectedCols \cup {"model"} |->
                        IF c = "model" THEN model_name ELSE frame.rows[i][c]]]]

\* one call of a source: the exception it raises, or the frame it returns
_call_reco_api(model_name, resp) ==
    IF resp.status = "timeout" THEN [raised |-> "Timeout", df |-> <<>>]
    ELSE IF resp.status = "http_error" THEN [raised |-> "HTTPError", df |-> <<>>]
    ELSE IF resp.status = "not_json" THEN [raised |-> "JSONDecodeError", df |-> <<>>]
    ELSE LET parsed == ParseBody(resp.body)
         IN  IF parsed.raised # "none"
             THEN [raised |-> parsed.raised, df |-> <<>>]
             ELSE SelectExpected(parsed.frame, model_name)

\* ------------------------------------------- _normalize_similarity_by_model
\* Series.min() / Series.max(): missing values are skipped; NaN when none is left
SeriesMin(sims) ==
    LET S == {i \in 1..Len(sims) : ~IsNaN(sims[i])}
    IN  IF S = {} THEN NaN
        ELSE sims[CHOOSE i \in S : \A j \in S : FLeq(sims[i], sims[j])]

SeriesMax(sims) ==
    LET S == {i \in 1..Len(sims) : ~IsNaN(sims[i])}
    IN  IF S = {} THEN NaN
        ELSE sims[CHOOSE i \in S : \A j \in S : FLeq(sims[j], sims[i])]

\* NormalizeGroup dividing by the maximum, the minimum not subtracted
NormalizeGroupByMax(group) ==
    LET sims  == [i \in 1..Len(group) |-> group[i].similarity]
        s_min == SeriesMin(sims)
        s_max == SeriesMax(sims)
        norm  == IF FLess(s_min, s_max)
                 THEN [i \in 1..Len(group) |-> FDiv(sims[i], s_max)]
                 ELSE [i \in 1..Len(group) |-> Float(1)]
    IN  [i \in 1..Len(group) |-> WithCol(group[i], "similarity_norm", norm[i])]

\* NormalizeGroup giving 0.0, not 1.0, to a group without spread
NormalizeGroupFlatZero(group) ==
    LET sims  == [i \in 1..Len(group) |-> group[i].similarity]
        s_min == SeriesMin(sims)
        s_max == SeriesMax(sims)
        norm  == IF FLess(s_min, s_max)
                 THEN [i \in 1..Len(group) |->
                         FDiv(FSub(sims[i], s_min), FSub(s_max, s_min))]
                 ELSE [i \in 1..Len(group) |-> Float(0)]
    IN  [i \in 1..Len(group) |-> WithCol(group[i], "similarity_norm", norm[i])]

\* lines 58-65: one group with its similarity_norm column
NormalizeGroup(group) ==
    \* a JSON number is a float from the start, so astype(float) changes no cell
    LET sims  == [i \in 1..Len(group) |-> group[i].similarity]
        s_min == SeriesMin(sims)
        s_max == SeriesMax(sims)
        norm  == IF FLess(s_min, s_max)
                 THEN [i \in 1..Len(group) |->
                         FDiv(FSub(sims[i], s_min), FSub(s_max, s_min))]
                 ELSE [i \in 1..Len(group) |-> Float(1)]
    IN  [i \in 1..Len(group) |-> WithCol(group[i], "similarity_norm", norm[i])]

RECURSIVE FirstSeen(_)
\* the distinct model names of a frame, in order of first appearance
FirstSeen(df) ==
    IF df = <<>> THEN <<>>
    ELSE <<df[1].model>>
         \o FirstSeen(SelectSeq(Tail(df), LAMBDA r : r.model # df[1].model))

\* GroupsByModel with the groups in order of first appearance (sort=False)
GroupsByModelUnsorted(df) ==
    LET keys == FirstSeen(df)
    IN  [g \in 1..Len(keys) |-> SelectSeq(df, LAMBDA r : r.model = keys[g])]

\* df.groupby("model"): the groups in ascending order of the model name, each
\* with its rows in the order of the frame
GroupsByModel(df) ==
    LET keys == SortedSeq({df[i].model : i \in 1..Len(df)})
    IN  [g \in 1..Len(keys) |-> SelectSeq(df, LAMBDA r : r.model = keys[g])]

\* _normalize_similarity_by_model with one minimum and one maximum for the whole
\* frame: the rows keep their places, the groups are not normalised apart
NormalizeWholeFrame(df) ==
    LET normed == NormalizeGroup(df)
        groups == GroupsByModel(normed)
    IN  Concat(groups)

_normalize_similarity_by_model(df) ==
    LET groups == GroupsByModel(df)
    IN  Concat([g \in 1..Len(groups) |-> NormalizeGroup(groups[g])])

\* ------------------------------------------- get_ensemble_recommendations
\* ResolveWeights giving every source the weight 1 when the caller gave none
ResolveWeightsOnes(names, w) ==
    IF w.given THEN w.map
    ELSE [m \in Range(names) |-> Float(1)]

\* lines 123-126: the weights used, equal ones when the caller gave none
ResolveWeights(names, w) ==
    IF w.given THEN w.map
    ELSE [m \in Range(names) |-> Rat(1, Len(names))]

\* line 128: df_norm["model"].map(weights).fillna(0.0)
WeightOf(wmap, m) == IF m \in DOMAIN wmap THEN wmap[m] ELSE Float(0)

\* WeightedRows multiplying the raw similarity, not the normalised one
WeightedRowsRaw(df, wmap) ==
    [i \in 1..Len(df) |->
        LET w == WeightOf(wmap, df[i].model)
        IN  WithCol(WithCol(df[i], "weight", w),
                    "score_weighted", FMul(df[i].similarity, w))]

\* WeightedRows leaving out the rows of the sources whose weight is 0
WeightedRowsDropZero(df, wmap) ==
    LET kept == SelectSeq(df, LAMBDA r : WeightOf(wmap, r.model) # Float(0))
    IN  [i \in 1..Len(kept) |->
            LET w == WeightOf(wmap, kept[i].model)
            IN  WithCol(WithCol(kept[i], "weight", w),
                        "score_weighted", FMul(kept[i].similarity_norm, w))]

\* lines 128-131: the weight and score_weighted columns
WeightedRows(df, wmap) ==
    [i \in 1..Len(df) |->
        LET w == WeightOf(wmap, df[i].model)
        IN  WithCol(WithCol(df[i], "weight", w),
                    "score_weighted", FMul(df[i].similarity_norm, w))]

RECURSIVE SumSkipNA(_)
\* the "sum" aggregation: missing values are skipped, the empty sum is 0
SumSkipNA(xs) ==
    IF xs = <<>> THEN Float(0)
    ELSE IF IsNaN(Head(xs)) THEN SumSkipNA(Tail(xs))
    ELSE FAdd(Head(xs), SumSkipNA(Tail(xs)))

\* the "first" aggregation: the first value that is not missing
FirstValid(group, c) ==
    LET S == {i \in 1..Len(group) : ~IsNA(c, group[i][c])}
    IN  IF S = {} THEN NA(c)
        ELSE group[CHOOSE i \in S : \A j \in S : i <= j][c]

\* lines 134-143: one output row of .groupby("isbn").agg(...)
AggregateGroup(group) ==
    [isbn                |-> group[1].isbn,
     score_final         |-> SumSkipNA([i \in 1..Len(group) |-> group[i].score_weighted]),
     title               |-> FirstValid(group, "title"),
     author              |-> FirstValid(group, "author"),
     description         |-> FirstValid(group, "description"),
     models_contributing |-> SortedSeq({group[i].model : i \in 1..Len(group)})]

\* GroupByIsbn grouping by isbn and model: one output row per source of a book
GroupByIsbnAndModel(df) ==
    LET keys == SortedSeq({df[i].isbn : i \in 1..Len(df)} \ {NA("isbn")})
        mods == SortedSeq({df[i].model : i \in 1..Len(df)})
    IN  Concat([g \in 1..Len(keys) |->
            LET with == [m \in 1..Len(mods) |->
                            SelectSeq(df, LAMBDA r : r.isbn = keys[g] /\ r.model = mods[m])]
                some == SelectSeq(with, LAMBDA grp : grp # <<>>)
            IN  [x \in 1..Len(some) |-> AggregateGroup(some[x])]])

\* lines 134-143: groupby("isbn", as_index=False) sorts the group keys, drops
\* the rows whose key is missing and keeps each group's rows in frame order
GroupByIsbn(df) ==
    LET keys == SortedSeq({df[i].isbn : i \in 1..Len(df)} \ {NA("isbn")})
    IN  [g \in 1..Len(keys) |->
            AggregateGroup(SelectSeq(df, LAMBDA r : r.isbn = keys[g]))]

Orderings(n) == {p \in [1..n -> 1..n] : \A i, j \in 1..n : i # j => p[i] # p[j]}

\* line 144: sort_values("score_final", ascending=False) with the default
\* kind="quicksort", which is not stable: every descending arrangement of the
\* rows is a possible outcome, whatever the order of rows with equal scores
SortValuesDesc(df) ==
    {[i \in 1..Len(df) |-> df[p[i]]] : p \in
        {q \in Orderings(Len(df)) :
            \A i, j \in 1..Len(df) :
                i < j => FLeq(df[q[j]].score_final, df[q[i]].score_final)}}

\* HeadRows without the truncation
HeadRowsAll(df, n) == df

\* line 148: DataFrame.head(n) for n >= 0
HeadRows(df, n) == SubSeq(df, 1, IF n < Len(df) THEN n ELSE Len(df))

\* lines 151-162: the rows as JSON-like dicts
ToResults(df) ==
    [i \in 1..Len(df) |->
        [isbn                |-> df[i].isbn,
         title               |-> df[i].title,
         author              |-> df[i].author,
         description         |-> df[i].description,
         score_final         |-> df[i].score_final,
         models_contributing |-> df[i].models_contributing]]

\* -------------------------------------------------------------- environment
\* the i-th record of source m's response, with all five fields
Record(m, i, k, s) ==
    [isbn |-> k, similarity |-> Float(s),
     title |-> <<m, i>>, author |-> <<m, i>>, description |-> <<m, i>>]

\* r without the key c
DropKey(r, c) == [x \in (DOMAIN r) \ {c} |-> r[x]]

\* the lists of 1..room complete records source m may send
RecordLists(m, room) ==
    UNION {{[i \in 1..n |-> Record(m, i, ks[i], ss[i])] :
                ks \in [1..n -> Isbns], ss \in [1..n -> SimValues]} : n \in 1..room}

ListBody(recs) == [shape |-> "list", records |-> recs]

WrappedBody(key, recs) ==
    [shape |-> "dict", lists |-> [x \in {key} |-> recs], fields |-> <<>>]

BareBody(rec) == [shape |-> "dict", lists |-> <<>>, fields |-> rec]

ScalarBody == [shape |-> "other"]

\* decoded JSON bodies source m may answer with: a list of up to `room` records,
\* a one-record list under one of the wrapper keys, a single record as a bare
\* object, the empty list, a one-record list or a bare object that lacks one
\* field, a scalar
Bodies(m, room) ==
    {ListBody(recs) : recs \in RecordLists(m, room)}
    \cup {WrappedBody(WrapperKeys[k], recs) :
            k \in 1..Len(WrapperKeys), recs \in RecordLists(m, 1)}
    \cup {BareBody(Record(m, 1, k, s)) : k \in Isbns, s \in SimValues}
    \cup {ListBody(<<>>)}
    \cup {ListBody(<<DropKey(Record(m, 1, 1, 0), c)>>) : c \in ExpectedCols}
    \cup {BareBody(DropKey(Record(m, 1, 1, 0), c)) : c \in ExpectedCols}
    \cup {ScalarBody}

\* what one POST to source m may come back with
Responses(m, room) ==
    {[status |-> st, body |-> ScalarBody] : st \in {"timeout", "http_error", "not_json"}}
    \cup {[status |-> "ok", body |-> b] : b \in Bodies(m, room)}

\* the records the next source may still send: MaxRows bounds the invocation's
\* total, and every source still to be called keeps room for one record
Room(collected, names) ==
    MaxRows - Len(Concat(collected)) - (Len(names) - Len(collected) - 1)

\* the weights argument: None, the empty dict, or a dict over the model names
WeightArgs(names) ==
    {[given |-> FALSE, map |-> <<>>]}
    \cup {[given |-> TRUE, map |-> f] :
            f \in UNION {[D -> WeightValues] : D \in {{}, Range(names)}}}

\* -------------------------------------------------------------------- state
VARIABLES
    pc,            \* "idle", "calling", "done" (returned), "raised"; "called", "collected", "normalized"
    api_urls,      \* the model names of the api_urls dict, in insertion order
    weights,       \* the weights argument
    top_k_final,   \* the top_k_final argument
    dfs,           \* the frames collected by the loop of lines 106-115
    calls,         \* the POSTs sent, in order: the model called and what the call raised
    error,         \* the exception the invocation ended with, "none" otherwise
    df_norm,       \* the frame of lines 120-131
    ensemble_df,   \* the sorted frame of lines 134-145
    results,       \* the list returned
    runs,          \* two invocations side by side: the frames of line 117
    runs_norm,     \* two invocations side by side: the frames of line 120
    exchange       \* one call of _call_reco_api: the model, the answer, the outcome

vars == <<pc, api_urls, weights, top_k_final, dfs, calls, error,
          df_norm, ensemble_df, results, runs, runs_norm, exchange>>

Init ==
    /\ pc = "idle"
    /\ api_urls = <<>>
    /\ weights = [given |-> FALSE, map |-> <<>>]
    /\ top_k_final = 0
    /\ dfs = <<>>
    /\ calls = <<>>
    /\ error = "none"
    /\ df_norm = <<>>
    /\ ensemble_df = <<>>
    /\ results = <<>>
    /\ runs = [shared |-> 0, all_df |-> <<>>]
    /\ runs_norm = <<>>
    /\ exchange = [model |-> 0]

\* CheckApiUrls without the guard
CheckApiUrlsNoGuard(names) == "none"

\* lines 102-103: the guard on api_urls
CheckApiUrls(names) == IF names = <<>> THEN "ValueError:api_urls" ELSE "none"

\* the call of get_ensemble_recommendations, up to the loop (lines 102-106)
Invoke ==
    /\ pc = "idle"
    /\ \E names \in DistinctSeqs(ModelNames, 0, Cardinality(ModelNames)) :
       \E w \in WeightArgs(names) :
       \E k \in TopKValues :
            /\ api_urls' = names
            /\ weights' = w
            /\ top_k_final' = k
            /\ error' = CheckApiUrls(names)
            /\ pc' = IF CheckApiUrls(names) = "none" THEN "calling" ELSE "raised"
    /\ UNCHANGED <<dfs, calls, df_norm, ensemble_df, results, runs, runs_norm,
                   exchange>>

\* lines 107-115, the loop's step on a source that answers with a frame
LoopAppend(m, df) ==
    /\ dfs' = Append(dfs, df)
    /\ UNCHANGED <<pc, error>>

\* LoopRaise catching the exception and going on without the source
LoopRaiseSkip(m, exc) ==
    /\ dfs' = Append(dfs, <<>>)
    /\ UNCHANGED <<pc, error>>

\* LoopRaise going on without a source that timed out (best effort)
LoopRaiseTimeoutSkip(m, exc) ==
    IF exc = "Timeout"
    THEN dfs' = Append(dfs, <<>>) /\ UNCHANGED <<pc, error>>
    ELSE pc' = "raised" /\ error' = exc /\ UNCHANGED dfs

\* LoopRaise swallowing the exception, so that the loop calls the source again
LoopRaiseRetry(m, exc) == UNCHANGED <<pc, error, dfs>>

\* lines 107-115, the loop's step on a source whose call raises: the exception
\* leaves get_ensemble_recommendations
LoopRaise(m, exc) ==
    /\ pc' = "raised"
    /\ error' = exc
    /\ UNCHANGED dfs

\* one iteration of the loop of lines 107-115: the next source is called
CallApi ==
    /\ pc = "calling"
    /\ Len(dfs) < Len(api_urls)
    /\ LET m == api_urls[Len(dfs) + 1]
       IN  \E resp \in Responses(m, Room(dfs, api_urls)) :
             LET r == _call_reco_api(m, resp)
             IN  /\ calls' = Append(calls, [model |-> m, raised |-> r.raised])
                 /\ IF r.raised = "none" THEN LoopAppend(m, r.df)
                    ELSE LoopRaise(m, r.raised)
    /\ UNCHANGED <<api_urls, weights, top_k_final, df_norm, ensemble_df, results,
                   runs, runs_norm, exchange>>

\* lines 117-164: the loop is over; normalise, weigh, aggregate, rank, return
Finish ==
    /\ pc = "calling"
    /\ Len(dfs) = Len(api_urls)
    /\ LET all_df == Concat(dfs)
           normed == _normalize_similarity_by_model(all_df)
           wmap   == ResolveWeights(api_urls, weights)
           scored == WeightedRows(normed, wmap)
       IN  /\ df_norm' = scored
           /\ \E sorted \in SortValuesDesc(GroupByIsbn(scored)) :
                /\ ensemble_df' = sorted
                /\ results' = ToResults(HeadRows(sorted, top_k_final))
    /\ pc' = "done"
    /\ UNCHANGED <<api_urls, weights, top_k_final, dfs, calls, error, runs, runs_norm,
                   exchange>>

Next == Invoke \/ CallApi \/ Finish

Spec == Init /\ [][Next]_vars

\* ------------------------------------------- two invocations side by side
\* the frame a source returns for a list of records (lines 24-46)
FrameOf(m, recs) == _call_reco_api(m, [status |-> "ok", body |-> ListBody(recs)]).df

\* the lists of 1..room records of isbn k source m may send
SimLists(m, k, room) ==
    UNION {{[i \in 1..n |-> Record(m, i, k, ss[i])] : ss \in [1..n -> SimValues]} :
                n \in 1..room}

\* what line 117 builds in an invocation that configures source a, whose frame
\* is dfA, alone, before or after another source b that sends up to `room` records
AllDfWith(a, dfA, b, room) ==
    {dfA}
    \cup UNION {{Concat(<<dfA, FrameOf(b, recs)>>), Concat(<<FrameOf(b, recs), dfA>>)} :
                recs \in UNION {SimLists(b, k, room) : k \in Isbns}}

\* lines 105-117 of two invocations that got the same response from source a
\* and anything from the other source
CollectTwice ==
    /\ pc = "idle"
    /\ \E a \in ModelNames : \E b \in ModelNames \ {a} :
       \E recsA \in SimLists(a, 1, MaxRows - 1) :
       \E left \in AllDfWith(a, FrameOf(a, recsA), b, MaxRows - Len(recsA)) :
       \E right \in AllDfWith(a, FrameOf(a, recsA), b, MaxRows - Len(recsA)) :
            runs' = [shared |-> a, all_df |-> <<left, right>>]
    /\ pc' = "collected"
    /\ UNCHANGED <<api_urls, weights, top_k_final, dfs, calls, error,
                   df_norm, ensemble_df, results, runs_norm, exchange>>

\* line 120 of the two invocations
NormalizeTwice ==
    /\ pc = "collected"
    /\ runs_norm' = <<_normalize_similarity_by_model(runs.all_df[1]),
                      _normalize_similarity_by_model(runs.all_df[2])>>
    /\ pc' = "normalized"
    /\ UNCHANGED <<api_urls, weights, top_k_final, dfs, calls, error,
                   df_norm, ensemble_df, results, runs, exchange>>

NextNorm == CollectTwice \/ NormalizeTwice

SpecNorm == Init /\ [][NextNorm]_vars

\* ------------------------------------------------- one call of one source
\* _call_reco_api on its own (lines 8-46): source m answers resp
CallOnce ==
    /\ pc = "idle"
    /\ \E m \in ModelNames : \E resp \in Responses(m, MaxRows) :
         exchange' = [model |-> m, resp |-> resp, out |-> _call_reco_api(m, resp)]
    /\ pc' = "called"
    /\ UNCHANGED <<api_urls, weights, top_k_final, dfs, calls, error,
                   df_norm, ensemble_df, results, runs, runs_norm>>

NextCall == CallOnce

SpecCall == Init /\ [][NextCall]_vars

\* --------------------------------------- responses with incomplete records
\* a record, whole or without one of its five fields
MaybeDropped(rec) == {rec} \cup {DropKey(rec, c) : c \in ExpectedCols}

\* the two-record lists source m may send of which a record lacks a field: the
\* first record is book 1 with similarity 5, the second any book with 5 or 10
PartialLists(m) ==
    {recs \in {<<r1, r2>> :
                  r1 \in MaybeDropped(Record(m, 1, 1, 5)),
                  r2 \in UNION {MaybeDropped(Record(m, 2, k, s)) :
                                    k \in Isbns, s \in {5, 10}}} :
        \E i \in 1..2 : DOMAIN recs[i] # ExpectedCols}

\* the answers with such a list, when the invocation has room for two records
PartialResponses(m, room) ==
    IF room < 2 THEN {}
    ELSE {[status |-> "ok", body |-> ListBody(recs)] : recs \in PartialLists(m)}

\* one iteration of the loop of lines 107-115 on a source that answers with a
\* list of which a record lacks a field
CallApiPartial ==
    /\ pc = "calling"
    /\ Len(dfs) < Len(api_urls)
    /\ LET m == api_urls[Len(dfs) + 1]
       IN  \E resp \in PartialResponses(m, Room(dfs, api_urls)) :
             LET r == _call_reco_api(m, resp)
             IN  /\ calls' = Append(calls, [model |-> m, raised |-> r.raised])
                 /\ IF r.raised = "none" THEN LoopAppend(m, r.df)
                    ELSE LoopRaise(m, r.raised)
    /\ UNCHANGED <<api_urls, weights, top_k_final, df_norm, ensemble_df, results,
                   runs, runs_norm, exchange>>

NextPartial == Invoke \/ CallApi \/ CallApiPartial \/ Finish

SpecPartial == Init /\ [][NextPartial]_vars

\* ------------------------------------------------------------- properties
\* what the invocation was given: the collected rows, in declared source order
Inputs == Concat(dfs)

\* the distinct isbn values the sources returned
DistinctKeys == {Inputs[i].isbn : i \in 1..Len(Inputs)} \ {NA("isbn")}

ResultKeys == {results[i].isbn : i \in 1..Len(results)}

\* C1: an invocation with an empty api_urls ends with the configuration error
\* of line 103, and no POST is ever sent for it
C1_EmptySourcesRejected ==
    (pc # "idle" /\ api_urls = <<>>) =>
        /\ pc = "raised"
        /\ error = "ValueError:api_urls"
        /\ calls = <<>>
        /\ results = <<>>

C1_Witness == pc = "raised" /\ api_urls = <<>> /\ error = "ValueError:api_urls"

\* C2: once a source's call has raised (timeout, HTTP status, undecodable or
\* ill-shaped body), the invocation has ended with that very exception and
\* nothing was aggregated or returned, whatever the earlier sources delivered
C2_FailFast ==
    \A i \in 1..Len(calls) :
        calls[i].raised # "none" =>
            /\ pc = "raised"
            /\ error = calls[i].raised
            /\ i = Len(calls)
            /\ df_norm = <<>> /\ ensemble_df = <<>> /\ results = <<>>

\* the second source times out after the first one delivered its frame
C2_Witness ==
    /\ pc = "raised"
    /\ Len(calls) = 2
    /\ calls[1].raised = "none" /\ Len(dfs) = 1
    /\ calls[2].raised = "Timeout"
    /\ results = <<>>

\* C3: no two items of a returned list have the same isbn
C3_UniqueKeys ==
    pc = "done" =>
        \A i, j \in 1..Len(results) : i # j => results[i].isbn # results[j].isbn

\* one book sent twice by one source and once more by the other
C3_Witness ==
    /\ pc = "done"
    /\ Len(results) = 1
    /\ Len(dfs) = 2
    /\ \E a, b \in 1..2 : a # b /\ Len(dfs[a]) = 2 /\ Len(dfs[b]) = 1
                          /\ dfs[a][1].isbn = dfs[a][2].isbn
                          /\ dfs[b][1].isbn = dfs[a][1].isbn

\* C4: when every source answered with a valid response, the list returned has
\* min(top_k_final, number of distinct isbn) items, all of them books the
\* sources sent, and the invocation raised nothing
C4_OutputLength ==
    pc = "done" =>
        LET keys == DistinctKeys
        IN  /\ error = "none"
            /\ Len(results) <= top_k_final
            /\ Len(results) <= Cardinality(keys)
            /\ ResultKeys \subseteq keys
            /\ Cardinality(keys) < top_k_final => ResultKeys = keys
            /\ Cardinality(keys) >= top_k_final => Len(results) = top_k_final

\* fewer distinct books than top_k_final: all of them are returned
C4_Witness ==
    /\ pc = "done"
    /\ Len(Inputs) = MaxRows
    /\ Cardinality(DistinctKeys) = 1
    /\ top_k_final = 2
    /\ Len(results) = 1

\* a ranks before b: a higher score_final, or the same score and a smaller isbn
RanksBefore(a, b) ==
    \/ FLess(b.score_final, a.score_final)
    \/ a.score_final = b.score_final /\ a.isbn < b.isbn

\* C5: the list returned is in descending score_final order with equal scores
\* in ascending isbn order, and it is the head of the frame so ordered: a book
\* left out ranks after every book kept
C5_RankedWithTieBreak ==
    pc = "done" =>
        /\ \A i, j \in 1..Len(results) : i < j => RanksBefore(results[i], results[j])
        /\ \A i \in 1..Len(results) : \A j \in 1..Len(ensemble_df) :
             ensemble_df[j].isbn \notin ResultKeys =>
                RanksBefore(results[i], ensemble_df[j])

\* the part of C5 the code does keep: no item is followed by one of a higher score,
\* and the list is the head of the sorted frame
C5_ScoreDescending ==
    pc = "done" =>
        /\ \A i, j \in 1..Len(results) :
             i < j => ~FLess(results[i].score_final, results[j].score_final)
        /\ \A i \in 1..Len(results) : \A j \in 1..Len(ensemble_df) :
             ensemble_df[j].isbn \notin ResultKeys =>
                ~FLess(results[i].score_final, ensemble_df[j].score_final)

\* two books of equal score_final were ranked
C5_TieWitness ==
    /\ pc = "done"
    /\ Len(ensemble_df) = 2
    /\ ensemble_df[1].score_final = ensemble_df[2].score_final
    /\ top_k_final = 1

\* the weight line 128 gives source m, read off the arguments
ExpectedWeight(m) ==
    IF weights.given
    THEN IF m \in DOMAIN weights.map THEN weights.map[m] ELSE <<0, 1>>
    ELSE <<1, Len(api_urls)>>

\* the raw similarity of an input row: the sources send whole numbers
RawSim(r) == r.similarity[1]

\* the least and the greatest raw similarity of one source's frame
MinSim(df) == CHOOSE x \in {RawSim(df[i]) : i \in 1..Len(df)} :
                \A i \in 1..Len(df) : x <= RawSim(df[i])

MaxSim(df) == CHOOSE x \in {RawSim(df[i]) : i \in 1..Len(df)} :
                \A i \in 1..Len(df) : x >= RawSim(df[i])

\* the min-max normalised score of a row of a source whose similarities span
\* lo..hi, as a fraction <<numerator, denominator>> not necessarily in lowest terms
ExpectedNorm(r, lo, hi) == IF hi > lo THEN <<RawSim(r) - lo, hi - lo>> ELSE <<1, 1>>

\* equality of two fractions with positive denominators
SameFraction(x, y) == x[1] * y[2] = y[1] * x[2]

RECURSIVE FractionSum(_)
\* the sum of a sequence of fractions
FractionSum(xs) ==
    IF xs = <<>> THEN <<0, 1>>
    ELSE LET t == FractionSum(Tail(xs))
         IN  <<Head(xs)[1] * t[2] + t[1] * Head(xs)[2], Head(xs)[2] * t[2]>>

FractionProduct(x, y) == <<x[1] * y[1], x[2] * y[2]>>

\* the positions in the j-th source's response of the records with isbn k
PlacesOfKey(j, k) == {i \in 1..Len(dfs[j]) : dfs[j][i].isbn = k}

\* the sources, as positions in api_urls, that returned isbn k
DeclaredSourcesOfKey(k) == {j \in 1..Len(dfs) : PlacesOfKey(j, k) # {}}

SourcesOfKey(k) == {api_urls[j] : j \in DeclaredSourcesOfKey(k)}

\* the weighted terms of the records with isbn k in the j-th source's response
SourceTerms(j, k) ==
    LET lo   == MinSim(dfs[j])
        hi   == MaxSim(dfs[j])
        w    == ExpectedWeight(api_urls[j])
        hits == SelectSeq(dfs[j], LAMBDA r : r.isbn = k)
    IN  [x \in 1..Len(hits) |-> FractionProduct(ExpectedNorm(hits[x], lo, hi), w)]

\* C6 as claimed: score_final is a sum with exactly one weighted term per source
\* that returned the book (whichever of the source's records for the book is
\* taken as its score), and models_contributing is the set of those sources
C6_OneTermPerSource ==
    pc = "done" =>
        \A n \in 1..Len(results) :
            LET k   == results[n].isbn
                per == SelectSeq([j \in 1..Len(dfs) |-> SourceTerms(j, k)],
                                 LAMBDA terms : terms # <<>>)
            IN  /\ Range(results[n].models_contributing) = SourcesOfKey(k)
                /\ \E pick \in [1..Len(per) -> 1..MaxRows] :
                     /\ \A x \in 1..Len(per) : pick[x] <= Len(per[x])
                     /\ SameFraction(results[n].score_final,
                            FractionSum([x \in 1..Len(per) |-> per[x][pick[x]]]))

\* C6 amended: score_final is the sum of one weighted term per record that
\* carries the book (a source that sends the book n times adds n terms), and
\* models_contributing lists the distinct sources of those records, ascending
C6_OneTermPerRecord ==
    pc = "done" =>
        \A n \in 1..Len(results) :
            LET k     == results[n].isbn
                terms == Concat([j \in 1..Len(dfs) |-> SourceTerms(j, k)])
                mc    == results[n].models_contributing
            IN  /\ SameFraction(results[n].score_final, FractionSum(terms))
                /\ Range(mc) = SourcesOfKey(k)
                /\ \A x, y \in 1..Len(mc) : x < y => mc[x] < mc[y]

\* Scenario A: S1 (weight 0.5) returns X with 10 and Y with 0, S2 (weight 0.5)
\* returns X with 5; the list returned is X with 1.0 from {S1, S2}, then Y with 0.0
C6_Witness ==
    /\ pc = "done"
    /\ api_urls = <<1, 2>>
    /\ weights.given /\ weights.map = [m \in {1, 2} |-> <<1, 2>>]
    /\ top_k_final = 2
    /\ Len(dfs[1]) = 2 /\ Len(dfs[2]) = 1
    /\ dfs[1][1].isbn = 1 /\ dfs[1][1].similarity = <<10, 1>>
    /\ dfs[1][2].isbn = 2 /\ dfs[1][2].similarity = <<0, 1>>
    /\ dfs[2][1].isbn = 1 /\ dfs[2][1].similarity = <<5, 1>>
    /\ Len(results) = 2
    /\ results[1].isbn = 1 /\ results[1].score_final = <<1, 1>>
    /\ results[1].models_contributing = <<1, 2>>
    /\ results[2].isbn = 2 /\ results[2].score_final = <<0, 1>>
    /\ results[2].models_contributing = <<1>>

\* the least element of a non-empty set of naturals
Least(S) == CHOOSE x \in S : \A y \in S : x <= y

\* C7 as claimed: the descriptive fields of an item are those of the first
\* record with its isbn in declared source order
C7_FirstInDeclaredOrder ==
    pc = "done" =>
        \A n \in 1..Len(results) :
            LET k == results[n].isbn
                j == Least(DeclaredSourcesOfKey(k))
                i == Least(PlacesOfKey(j, k))
            IN  \A c \in DescCols : results[n][c] = dfs[j][i][c]

\* the position in api_urls of source m
DeclaredAt(m) == CHOOSE j \in 1..Len(api_urls) : api_urls[j] = m

\* C7 amended: the descriptive fields of an item are those of one record: among
\* the sources that returned the book, the one whose name sorts first, and of
\* its records with that isbn the first one of its response
C7_FirstInNameOrder ==
    pc = "done" =>
        \A n \in 1..Len(results) :
            LET k == results[n].isbn
                j == DeclaredAt(Least(SourcesOfKey(k)))
                i == Least(PlacesOfKey(j, k))
            IN  \A c \in DescCols : results[n][c] = dfs[j][i][c]

\* the source declared first is not the one whose name sorts first, both
\* returned the book with texts of their own, and the item shows the texts of
\* the source declared second
C7_Witness ==
    /\ pc = "done"
    /\ api_urls = <<2, 1>>
    /\ Len(results) >= 1
    /\ SourcesOfKey(results[1].isbn) = {1, 2}
    /\ dfs[1][1].isbn = results[1].isbn /\ dfs[2][1].isbn = results[1].isbn
    /\ dfs[1][1].title # dfs[2][1].title
    /\ results[1].title = dfs[2][1].title

\* the rows of df_norm that belong to source m, in frame order
NormRowsOf(m) == SelectSeq(df_norm, LAMBDA r : r.model = m)

\* C8: for a source whose similarities are not all equal, the i-th record's
\* similarity_norm is (similarity - min) / (max - min) over that source's own
\* records: within [0, 1], 0 at the minimum, 1 at the maximum, and ordered as
\* the raw similarities are
C8_MinMaxNormalised ==
    pc = "done" =>
        \A j \in 1..Len(dfs) :
            LET out == NormRowsOf(api_urls[j])
                lo  == MinSim(dfs[j])
                hi  == MaxSim(dfs[j])
            IN  hi > lo =>
                  /\ Len(out) = Len(dfs[j])
                  /\ \A i \in 1..Len(out) :
                       LET norm == out[i].similarity_norm
                           raw  == RawSim(dfs[j][i])
                       IN  /\ out[i].isbn = dfs[j][i].isbn
                           /\ out[i].similarity = dfs[j][i].similarity
                           /\ norm[2] > 0
                           /\ norm[1] * (hi - lo) = (raw - lo) * norm[2]
                           /\ 0 <= norm[1] /\ norm[1] <= norm[2]
                           /\ raw = lo => norm = <<0, 1>>
                           /\ raw = hi => norm = <<1, 1>>
                  /\ \A a, b \in 1..Len(out) :
                       RawSim(dfs[j][a]) < RawSim(dfs[j][b]) =>
                          FLess(out[a].similarity_norm, out[b].similarity_norm)

\* a source sent a minimum, a maximum and a value half way between them, which
\* is normalised to 1/2
C8_Witness ==
    /\ pc = "done"
    /\ \E j \in 1..Len(dfs) :
         /\ Len(dfs[j]) = 3
         /\ MinSim(dfs[j]) < MaxSim(dfs[j])
         /\ \E i \in 1..3 : NormRowsOf(api_urls[j])[i].similarity_norm = <<1, 2>>

\* C9: for a source whose N >= 1 records all have the same similarity, every
\* record's similarity_norm is 1.0 and its score_weighted is the source's weight
C9_DegenerateSourceIsOne ==
    pc = "done" =>
        \A j \in 1..Len(dfs) :
            LET out == NormRowsOf(api_urls[j])
            IN  MaxSim(dfs[j]) = MinSim(dfs[j]) =>
                  /\ Len(out) = Len(dfs[j])
                  /\ \A i \in 1..Len(out) :
                       /\ out[i].isbn = dfs[j][i].isbn
                       /\ out[i].similarity_norm = <<1, 1>>
                       /\ SameFraction(out[i].score_weighted,
                                       ExpectedWeight(api_urls[j]))
                       /\ out[i].weight = out[i].score_weighted

\* one source with two records of one similarity and a weight that is not 0,
\* another with a single record
C9_Witness ==
    /\ pc = "done"
    /\ Len(dfs) = 2
    /\ \E a, b \in 1..2 :
         /\ a # b
         /\ Len(dfs[a]) = 2 /\ Len(dfs[b]) = 1
         /\ MinSim(dfs[a]) = 5 /\ MaxSim(dfs[a]) = 5
         /\ NormRowsOf(api_urls[a])[2].score_weighted = <<1, 2>>
         /\ NormRowsOf(api_urls[b])[1].similarity_norm = <<1, 1>>

\* the rows of source m in a frame
OfModel(df, m) == SelectSeq(df, LAMBDA r : r.model = m)

\* C10: two invocations that got the same response from a source give that
\* source's records the same similarity_norm, record by record, whatever the
\* other source sent, and whether it was configured at all
C10_NormalisationPerSource ==
    (pc = "normalized"
        /\ OfModel(runs.all_df[1], runs.shared) = OfModel(runs.all_df[2], runs.shared)) =>
            /\ OfModel(runs_norm[1], runs.shared) = OfModel(runs_norm[2], runs.shared)
            /\ Len(OfModel(runs_norm[1], runs.shared)) = Len(OfModel(runs.all_df[1], runs.shared))

\* the shared source sent 0 and 5; in one invocation the other source sent 10,
\* in the other invocation it was not configured
C10_Witness ==
    /\ pc = "normalized"
    /\ LET mine  == OfModel(runs.all_df[1], runs.shared)
           other == {r \in Range(runs.all_df[1]) : r.model # runs.shared}
       IN  /\ Len(mine) = 2
           /\ mine[1].similarity = <<0, 1>> /\ mine[2].similarity = <<5, 1>>
           /\ other # {} /\ \A r \in other : r.similarity = <<10, 1>>
           /\ runs.all_df[2] = mine
           /\ OfModel(runs_norm[1], runs.shared)[2].similarity_norm = <<1, 1>>

\* the sources, as positions in api_urls, whose weight is 0: given as 0, or
\* left out of the weights dict and filled with 0.0 by line 128
ZeroWeighted == {j \in 1..Len(dfs) : ExpectedWeight(api_urls[j])[1] = 0}

\* the weighted terms of the records with isbn k of all sources but the j-th
TermsWithout(j, k) ==
    Concat([x \in 1..Len(dfs) |-> IF x = j THEN <<>> ELSE SourceTerms(x, k)])

\* C11: a source of weight 0 has score_weighted 0 on each of its rows; every
\* book it returned is a row of the aggregated frame whose score_final is the
\* sum of the other sources' terms alone and whose models_contributing names
\* the source; a book that only sources of weight 0 returned has score_final 0
C11_ZeroWeightSource ==
    pc = "done" =>
        \A j \in ZeroWeighted :
            /\ \A r \in Range(NormRowsOf(api_urls[j])) : r.score_weighted = <<0, 1>>
            /\ \A i \in 1..Len(dfs[j]) :
                 LET k    == dfs[j][i].isbn
                     hits == {e \in 1..Len(ensemble_df) : ensemble_df[e].isbn = k}
                 IN  /\ Cardinality(hits) = 1
                     /\ \A e \in hits :
                          /\ api_urls[j] \in Range(ensemble_df[e].models_contributing)
                          /\ SameFraction(ensemble_df[e].score_final,
                                          FractionSum(TermsWithout(j, k)))
                          /\ DeclaredSourcesOfKey(k) \subseteq ZeroWeighted =>
                                ensemble_df[e].score_final = <<0, 1>>

\* one source has weight 0 and the other weight 1/2; a book both returned has
\* the score the second source gave it and names both, a book only the first
\* returned is in the aggregated frame with score 0
C11_Witness ==
    /\ pc = "done"
    /\ Len(dfs) = 2
    /\ \E a, b \in 1..2 :
         /\ a # b
         /\ ExpectedWeight(api_urls[a]) = <<0, 1>>
         /\ ExpectedWeight(api_urls[b]) = <<1, 2>>
         /\ Len(dfs[a]) = 2 /\ Len(dfs[b]) = 1
         /\ dfs[a][1].isbn = dfs[b][1].isbn /\ dfs[a][2].isbn # dfs[b][1].isbn
         /\ dfs[a][1].similarity # dfs[a][2].similarity
         /\ \E x, y \in 1..2 :
              /\ ensemble_df[x].isbn = dfs[a][1].isbn
              /\ ensemble_df[x].score_final = <<1, 2>>
              /\ Range(ensemble_df[x].models_contributing) = {1, 2}
              /\ ensemble_df[y].isbn = dfs[a][2].isbn
              /\ ensemble_df[y].score_final = <<0, 1>>
              /\ ensemble_df[y].models_contributing = <<api_urls[a]>>

\* the normalised scores of the records with isbn k in the j-th source's response
SourceNorms(j, k) ==
    LET lo   == MinSim(dfs[j])
        hi   == MaxSim(dfs[j])
        hits == SelectSeq(dfs[j], LAMBDA r : r.isbn = k)
    IN  [x \in 1..Len(hits) |-> ExpectedNorm(hits[x], lo, hi)]

\* C12: without a weights argument every row of each of the N sources has the
\* weight 1/N, the score_final of an item is 1/N times the sum of the
\* normalised scores of its records, and it is at most 1 when no source
\* returned the item's isbn twice
C12_EqualWeights ==
    (pc = "done" /\ ~weights.given) =>
        LET N == Len(api_urls)
        IN  /\ \A j \in 1..N : Len(NormRowsOf(api_urls[j])) = Len(dfs[j])
            /\ \A r \in Range(df_norm) : r.weight[1] = 1 /\ r.weight[2] = N
            /\ \A n \in 1..Len(results) :
                 LET k     == results[n].isbn
                     total == FractionSum(Concat([j \in 1..N |-> SourceNorms(j, k)]))
                     score == results[n].score_final
                 IN  /\ score[1] * N * total[2] = total[1] * score[2]
                     /\ (\A j \in 1..N : Cardinality(PlacesOfKey(j, k)) <= 1) =>
                            score[1] <= score[2]

\* two sources and no weights: a book both returned once, at the top of each
\* response, has score_final 1/2 + 1/2 = 1
C12_Witness ==
    /\ pc = "done"
    /\ ~weights.given
    /\ Len(api_urls) = 2
    /\ Len(dfs[1]) = 2 /\ Len(dfs[2]) = 1
    /\ \A r \in Range(df_norm) : r.weight = <<1, 2>>
    /\ \E n \in 1..Len(results) :
         /\ Cardinality(PlacesOfKey(1, results[n].isbn)) = 1
         /\ Cardinality(PlacesOfKey(2, results[n].isbn)) = 1
         /\ results[n].score_final = <<1, 1>>

\* every configured source has the weight 0
AllWeightsZero == \A j \in 1..Len(api_urls) : ExpectedWeight(api_urls[j])[1] = 0

\* C13: an invocation with a non-empty api_urls whose weights are all 0 ends
\* with an error before the loop: no POST is sent and nothing is returned
C13_AllZeroWeightsRejected ==
    (pc # "idle" /\ api_urls # <<>> /\ AllWeightsZero) =>
        /\ pc = "raised"
        /\ error # "none"
        /\ calls = <<>>
        /\ results = <<>>

\* what the code does with weights that are all 0: every source was called,
\* nothing was raised, and the books are returned, each with score_final 0
C13_Witness ==
    /\ pc = "done"
    /\ Len(api_urls) = 2
    /\ weights.given /\ AllWeightsZero
    /\ error = "none"
    /\ Len(calls) = 2
    /\ Len(results) = 2
    /\ \A n \in 1..Len(results) : results[n].score_final = <<0, 1>>

\* a row all of whose five fields were in the record the source sent
Complete(r) == \A c \in ExpectedCols : ~IsNA(c, r[c])

\* what is said of a book: its isbn, score_final and models_contributing
Verdicts(df) ==
    {[isbn |-> df[i].isbn, score_final |-> df[i].score_final,
      models_contributing |-> df[i].models_contributing] : i \in 1..Len(df)}

\* C14: no source is accepted whose records all lack a field, and the books,
\* their score_final and their models_contributing are those of the complete
\* records alone: an incomplete record adds to no score and to no
\* models_contributing and does not count in its source's minimum and maximum
C14_PartialTolerance ==
    /\ \A j \in 1..Len(dfs) : \E i \in 1..Len(dfs[j]) : Complete(dfs[j][i])
    /\ pc = "done" =>
         LET kept == [j \in 1..Len(dfs) |-> SelectSeq(dfs[j], Complete)]
             normed == _normalize_similarity_by_model(Concat(kept))
             scored == WeightedRows(normed, ResolveWeights(api_urls, weights))
         IN  Verdicts(ensemble_df) = Verdicts(GroupByIsbn(scored))

\* the only source sent a complete record with similarity 5 and a record
\* without isbn with similarity 10: the book of the first record has
\* score_final 0, not the 1 it has as the source's only record
C14_Witness ==
    /\ pc = "done"
    /\ Len(dfs) = 1 /\ ~weights.given
    /\ Len(dfs[1]) = 2
    /\ Complete(dfs[1][1]) /\ dfs[1][1].similarity = <<5, 1>>
    /\ dfs[1][2].isbn = NA("isbn") /\ dfs[1][2].similarity = <<10, 1>>
    /\ Len(results) = 1
    /\ results[1].isbn = dfs[1][1].isbn
    /\ results[1].score_final = <<0, 1>>

\* the body is a JSON object holding a list under one of the wrapper keys
IsWrapper(b) ==
    b.shape = "dict" /\ \E i \in 1..Len(WrapperKeys) : WrapperKeys[i] \in DOMAIN b.lists

\* the source answered with a decoded body that is neither a list nor a wrapper
Unrecognised ==
    /\ pc = "called"
    /\ exchange.resp.status = "ok"
    /\ exchange.resp.body.shape # "list"
    /\ ~IsWrapper(exchange.resp.body)

\* C15 as claimed: a body that is neither a list of records nor an object with
\* a list under a wrapper key makes the call raise, and no frame comes of it
C15_UnrecognisedShapeIsError ==
    Unrecognised => exchange.out.raised # "none" /\ exchange.out.df = <<>>

\* C15 amended: a body that is neither a list nor an object raises the
\* unexpected-format error; an object without a wrapper key is read as one
\* record: with the five fields it is returned as a frame of one row, that
\* record under the model's name, without one of them the call raises the
\* missing-columns error
C15_BareObjectIsOneRecord ==
    Unrecognised =>
        LET b   == exchange.resp.body
            out == exchange.out
        IN  IF b.shape # "dict"
            THEN out.raised = "ValueError:format" /\ out.df = <<>>
            ELSE IF ExpectedCols \subseteq DOMAIN b.fields
            THEN /\ out.raised = "none"
                 /\ Len(out.df) = 1
                 /\ \A c \in ExpectedCols : out.df[1][c] = b.fields[c]
                 /\ out.df[1].model = exchange.model
            ELSE out.raised = "ValueError:columns" /\ out.df = <<>>

\* a bare object with the five fields came back as a frame of one row
C15_Witness ==
    /\ Unrecognised
    /\ exchange.resp.body.shape = "dict"
    /\ DOMAIN exchange.resp.body.fields = ExpectedCols
    /\ exchange.out.raised = "none"
    /\ Len(exchange.out.df) = 1
    /\ exchange.out.df[1].isbn = 2

\* a source delivered its frame and a source called after it timed out
TimeoutAfterSuccess ==
    \E i, j \in 1..Len(calls) :
        i < j /\ calls[i].raised = "none" /\ calls[j].raised = "Timeout"

\* C16 as claimed (get_ensemble_recommendations has no failFast parameter: what
\* is said of failFast=false is said of the invocations there are): when a
\* source timed out after another delivered, the invocation does not raise, and
\* what it returns is the ranking of the frames that were delivered
C16_BestEffortOnTimeout ==
    TimeoutAfterSuccess =>
        /\ pc # "raised"
        /\ error = "none"
        /\ pc = "done" =>
             LET normed == _normalize_similarity_by_model(Concat(dfs))
                 scored == WeightedRows(normed, ResolveWeights(api_urls, weights))
             IN  /\ Verdicts(ensemble_df) = Verdicts(GroupByIsbn(scored))
                 /\ results # <<>>

\* C16 amended: when a source timed out after another delivered, the
\* invocation has raised the timeout: the frame that was delivered went into
\* no normalisation, aggregation or ranking, and nothing is returned
C16_TimeoutRaises ==
    TimeoutAfterSuccess =>
        /\ pc = "raised"
        /\ error = "Timeout"
        /\ calls[Len(calls)].raised = "Timeout"
        /\ Len(dfs) = Len(calls) - 1
        /\ df_norm = <<>> /\ ensemble_df = <<>> /\ results = <<>>

\* Scenario D: S1 delivered two records, then S2 timed out
C16_Witness ==
    /\ api_urls = <<1, 2>>
    /\ Len(calls) = 2
    /\ calls[1] = [model |-> 1, raised |-> "none"]
    /\ calls[2] = [model |-> 2, raised |-> "Timeout"]
    /\ Len(dfs) = 1 /\ Len(dfs[1]) = 2
    /\ pc = "raised" /\ error = "Timeout"
    /\ results = <<>>

\* C17: the POSTs of an invocation go to its sources in declared order, one
\* each: no source is called twice, a returned invocation has called every
\* source once, all with success, and a call that raised is the last call of
\* its invocation, which has ended
C17_OneRequestPerSource ==
    /\ Len(calls) <= Len(api_urls)
    /\ \A i \in 1..Len(calls) : calls[i].model = api_urls[i]
    /\ \A i, j \in 1..Len(calls) : i # j => calls[i].model # calls[j].model
    /\ pc = "done" =>
         /\ Len(calls) = Len(api_urls)
         /\ \A i \in 1..Len(calls) : calls[i].raised = "none"
    /\ \A i \in 1..Len(calls) :
         calls[i].raised # "none" => i = Len(calls) /\ pc = "raised"
    /\ pc = "raised" /\ calls # <<>> => calls[Len(calls)].raised # "none"

\* the first of two sources answered with an HTTP error status: it was called
\* once and the second source was not called
C17_Witness ==
    /\ pc = "raised"
    /\ Len(api_urls) = 2
    /\ calls = <<[model |-> api_urls[1], raised |-> "HTTPError"]>>
    /\ dfs = <<>>

=============================================================================
